---- MODULE Spec2Model ----
(***************************************************************************)
(* Model of the traefik-modsecurity middleware (Modsecurity.ServeHTTP):    *)
(* body capture, WAF health tracking, verdict forwarding and response      *)
(* relay.  One request slot per member of Reqs; a slot is recycled when    *)
(* its request has completed.                                              *)
(***************************************************************************)
EXTENDS Integers, Sequences, FiniteSets, TLC

\* ---------------------------------------------------------------- bounds
\* Configured maxBodySizeBytes of the instances that limit the body.
MaxBodySizeBytes == 2
\* Configured maxBodySizeBytesForPool.
MaxBodySizeBytesForPool == 1
\* Configured unhealthyWafBackOffPeriodSecs of the instances that back off.
BackOffSecs == 1
\* Request slots of the model.
NumReqs == 2

\* Longest inbound body on the wire: one byte past the cap.
MaxWireLen == MaxBodySizeBytes + 1

Reqs == 1..NumReqs
BufIds == 1..NumReqs

\* ------------------------------------------------------ program constants
StatusBadRequest == 400
StatusRequestEntityTooLarge == 413
StatusBadGateway == 502
BlockThreshold == 400

\* The backend collaborator's answer (opaque to the middleware).
StatusOK == 200
BackendStatus == 200
BackendBody == <<BackendStatus, 7>>

StatusHeaderName == "X-Waf-Status"
ReqHeaderNames == {"Upgrade", "Content-Length", StatusHeaderName}
RespHeaderNames == {"Content-Type", "X-Pre", "X-Waf", StatusHeaderName}

\* CreateConfig's TimeoutMillis, and time.Duration units in milliseconds.
DefaultTimeoutMillis == 2000
Millisecond == 1
Second == 1000

ModSecurityUrl == <<"h", ":", "/", "/", "w">>

VARIABLES
    cfg,           \* the Modsecurity instance's immutable configuration
    active,        \* request slots the hosting server uses
    unhealthyWaf,  \* Modsecurity.unhealthyWaf
    mutex,         \* holder of unhealthyWafMutex: 0 free, a request, or "timer"
    timers,        \* number of pending time.AfterFunc timers
    pool,          \* bodyBufferPool: buffers available for Get
    bufs,          \* contents of every bytes.Buffer ever handed out
    pc,            \* per request: position in ServeHTTP
    req,           \* per request: the inbound *http.Request
    loc,           \* per request: ServeHTTP's local variables
    rw,            \* per request: the http.ResponseWriter
    obs,           \* per request: what the collaborators observed
    inflight       \* per buffer: the bytes a transport reader is still sending

vars == <<cfg, active, unhealthyWaf, mutex, timers, pool, bufs, pc, req, loc, rw, obs,
          inflight>>

\* ------------------------------------------------------------- helpers
Min(a, b) == IF a < b THEN a ELSE b

Prefix(s, n) == SubSeq(s, 1, Min(n, Len(s)))

Suffix(s, n) == SubSeq(s, n + 1, Len(s))

\* strings.ToUpper over the method tokens of the model.
ToUpper(s) ==
    CASE s = "get" -> "GET"
      [] s = "head" -> "HEAD"
      [] s = "post" -> "POST"
      [] OTHER -> s

\* createIgnoreBodyMap: the set of upper-cased verbs.
createIgnoreBodyMap(verbs) == {ToUpper(verbs[i]) : i \in 1..Len(verbs)}

\* The configured ignoreBodyForVerbs list of every instance of the model.
IgnoreBodyForVerbs == <<"get", "HEAD">>

DigitVal(c) ==
    CASE c = "0" -> 0 [] c = "1" -> 1 [] c = "2" -> 2 [] c = "3" -> 3
      [] c = "4" -> 4 [] c = "5" -> 5 [] c = "6" -> 6 [] c = "7" -> 7
      [] c = "8" -> 8 [] c = "9" -> 9 [] OTHER -> -1

RECURSIVE ParseDigits(_, _)
ParseDigits(s, acc) ==
    IF s = <<>> THEN [ok |-> TRUE, val |-> acc]
    ELSE IF DigitVal(Head(s)) < 0 THEN [ok |-> FALSE, val |-> 0]
    ELSE ParseDigits(Tail(s), 10 * acc + DigitVal(Head(s)))

\* strconv.ParseInt(s, 10, 64) on a string given as its characters.
ParseInt(s) ==
    IF s = <<>> THEN [ok |-> FALSE, val |-> 0]
    ELSE IF Head(s) \in {"+", "-"}
         THEN IF Tail(s) = <<>> THEN [ok |-> FALSE, val |-> 0]
              ELSE LET p == ParseDigits(Tail(s), 0)
                   IN  [ok |-> p.ok, val |-> IF Head(s) = "-" THEN 0 - p.val ELSE p.val]
         ELSE ParseDigits(s, 0)

IsHex(c) == DigitVal(c) >= 0 \/ c \in {"a", "b", "c", "d", "e", "f"}

RECURSIVE ValidEscapes(_)
\* url.Parse rejects a percent sign that is not followed by two hex digits.
ValidEscapes(s) ==
    IF s = <<>> THEN TRUE
    ELSE IF Head(s) = "%"
         THEN /\ Len(s) >= 3
              /\ IsHex(s[2])
              /\ IsHex(s[3])
              /\ ValidEscapes(SubSeq(s, 4, Len(s)))
         ELSE ValidEscapes(Tail(s))

\* http.Header.Get: the first value of the name, or the empty string.
HeaderGet(h, name, empty) == IF h[name] = <<>> THEN empty ELSE h[name][1]

\* http.Header.Set: replaces the name's values by the one value.
HeaderSet(h, name, value) == [h EXCEPT ![name] = <<value>>]

\* The inbound body bytes of slot r: every byte names its request and offset.
Wire(r, n) == [i \in 1..n |-> 10 * r + i]

\* ------------------------------------------------------------ the state
\* The Config values an operator may write (the fields New and ServeHTTP read).
ConfigValues ==
    [ timeoutMillis : {0, 1, DefaultTimeoutMillis},
      ignoreBodyForVerbsDeny : BOOLEAN,
      maxBodySizeBytes : {0, MaxBodySizeBytes},
      unhealthyWafBackOffPeriodSecs : {0, BackOffSecs},
      modSecurityStatusRequestHeader : {"", StatusHeaderName} ]

\* The http.Client deadline New derives from Config.TimeoutMillis, as a
\* time.Duration counted in milliseconds; http.Client reads 0 as no deadline.
ClientTimeout(t) == IF t = 0 THEN 2 * Second ELSE t * Millisecond

\* New: the instance built from a Config.
New(config) ==
    [ timeoutMillis |-> config.timeoutMillis,
      httpClientTimeout |-> ClientTimeout(config.timeoutMillis),
      ignoreBodyForVerbsDeny |-> config.ignoreBodyForVerbsDeny,
      maxBodySizeBytes |-> config.maxBodySizeBytes,
      unhealthyWafBackOffPeriodSecs |-> config.unhealthyWafBackOffPeriodSecs,
      modSecurityStatusRequestHeader |-> config.modSecurityStatusRequestHeader ]

\* Instances built with the default timeout of CreateConfig.
Configs == {New(c) : c \in {v \in ConfigValues : v.timeoutMillis = DefaultTimeoutMillis}}

\* Modsecurity.ignoreBodyForVerbs, built once by New.
ignoreBodyForVerbs == createIgnoreBodyMap(IgnoreBodyForVerbs)

TimerOwner == NumReqs + 1

NoHeaders(names) == [n \in names |-> <<>>]

NilBody == [nil |-> TRUE, buf |-> 0, len |-> 0, data |-> <<>>]

NoProxyReq == [built |-> FALSE, Method |-> "", URL |-> <<>>, hasBody |-> FALSE,
               Header |-> NoHeaders(ReqHeaderNames)]

NoResp == [StatusCode |-> 0, Header |-> NoHeaders(RespHeaderNames), Body |-> <<>>]

IdleReq == [Method |-> "GET", RequestURI |-> <<>>, Header |-> NoHeaders(ReqHeaderNames),
            wire |-> <<>>, wireEnd |-> "EOF", pos |-> 0, Body |-> "wire"]

FreshLoc == [body |-> NilBody, path |-> "none", proxyReq |-> NoProxyReq,
             resp |-> NoResp, armed |-> FALSE]

\* The writer the hosting server hands in: earlier middleware may already
\* have put headers on it.
FreshWriter == [Header |-> [n \in RespHeaderNames |->
                               CASE n = "Content-Type" -> <<"old1", "old2">>
                                 [] n = "X-Pre" -> <<"pre">>
                                 [] OTHER -> <<>>],
                status |-> 0, sent |-> NoHeaders(RespHeaderNames), body |-> <<>>]

\* http.ResponseWriter.WriteHeader: the status line goes out with the headers
\* the map holds at that moment; a second call changes nothing.
WriteHeader(w, code) ==
    IF w.status # 0 THEN w ELSE [w EXCEPT !.status = code, !.sent = w.Header]

\* http.ResponseWriter.Write: body bytes, after an implicit WriteHeader(200)
\* when no status has been written.
Write(w, bytes) == [WriteHeader(w, StatusOK) EXCEPT !.body = @ \o bytes]

FreshObs == [waf |-> <<>>, next |-> <<>>, reads |-> 0, health |-> "unread",
             gets |-> 0, puts |-> 0]

FreshBuf == [mem |-> <<>>, len |-> 0]

Init ==
    /\ cfg \in Configs
    /\ active = {1}
    /\ unhealthyWaf = FALSE
    /\ mutex = 0
    /\ timers = 0
    /\ pool = {}
    /\ bufs = [b \in BufIds |-> FreshBuf]
    /\ pc = [r \in Reqs |-> "idle"]
    /\ req = [r \in Reqs |-> IdleReq]
    /\ loc = [r \in Reqs |-> FreshLoc]
    /\ rw = [r \in Reqs |-> FreshWriter]
    /\ obs = [r \in Reqs |-> FreshObs]
    /\ inflight = [b \in BufIds |-> <<>>]

\* ------------------------------------------------------- inbound requests
Methods == {"GET", "POST"}

UpgradeValues == {<<>>, <<"h2c", "websocket">>}

\* Content-Length as sent: absent, unparseable, within and above the pool
\* threshold (each value is the header string's characters).
ContentLengthValues == {<<>>, << <<"1", "x">> >>, << <<"1">> >>, << <<"9">> >>}

RequestURIs == {<<"/", "a", "%", "2", "e">>, <<"/", "%", "z", "z">>}

WireEnds == {"EOF", "error"}

NewInbound(r, m, up, cl, uri, n, end) ==
    [Method |-> m, RequestURI |-> uri,
     Header |-> [h \in ReqHeaderNames |->
                   CASE h = "Upgrade" -> up
                     [] h = "Content-Length" -> cl
                     [] OTHER -> <<>>],
     wire |-> Wire(r, n), wireEnd |-> end, pos |-> 0, Body |-> "wire"]

\* The hosting server starts ServeHTTP on a new inbound request.
Arrive(r) ==
    /\ r \in active
    /\ pc[r] = "idle"
    /\ \E m \in Methods, up \in UpgradeValues, cl \in ContentLengthValues,
          uri \in RequestURIs, n \in 0..MaxWireLen, end \in WireEnds :
          req' = [req EXCEPT ![r] = NewInbound(r, m, up, cl, uri, n, end)]
    /\ loc' = [loc EXCEPT ![r] = FreshLoc]
    /\ rw' = [rw EXCEPT ![r] = FreshWriter]
    /\ obs' = [obs EXCEPT ![r] = FreshObs]
    /\ pc' = [pc EXCEPT ![r] = "entry"]
    /\ UNCHANGED <<cfg, active, inflight, unhealthyWaf, mutex, timers, pool, bufs>>

\* ------------------------------------------------------- collaborators
\* Only the first Upgrade value looked at.
isWebsocketFirst(q) == HeaderGet(q.Header, "Upgrade", "") = "websocket"

\* isWebsocket: some Upgrade value is exactly "websocket".
isWebsocket(q) == \E i \in 1..Len(q.Header["Upgrade"]) : q.Header["Upgrade"][i] = "websocket"

\* The bytes of the captured body: a pooled body is a slice of the buffer.
BodyBytes(l, bs) ==
    IF l.body.nil THEN <<>>
    ELSE IF l.body.buf = 0 THEN l.body.data
    ELSE Prefix(bs[l.body.buf].mem, l.body.len)

\* What a reader of req.Body gets from here on.
Readable(q, l, bs) == IF q.Body = "captured" THEN BodyBytes(l, bs) ELSE Suffix(q.wire, q.pos)

\* a.next.ServeHTTP(rw, req): the backend sees the request and answers.
NextSeen(q, l, bs) == [Method |-> q.Method, Header |-> q.Header, body |-> Readable(q, l, bs),
                       pos |-> q.pos, restored |-> q.Body = "captured"]

NextWrites(w) == Write(WriteHeader(w, BackendStatus), BackendBody)

\* The error path that writes nothing to the client.
HttpErrorSilent(w, code) == w

\* The error answer carrying the diagnostic header to the client.
HttpErrorTagged(w, code) ==
    Write(WriteHeader([w EXCEPT !.Header =
                          HeaderSet(HeaderSet(w.Header, "Content-Type", "text/plain"),
                                    StatusHeaderName, "blocked")], code),
          <<0, code>>)

\* http.Error: plain-text content type, the status, the message.
HttpError(w, code) ==
    Write(WriteHeader([w EXCEPT !.Header = HeaderSet(w.Header, "Content-Type", "text/plain")],
                      code),
          <<0, code>>)

\* req.Header.Set(a.modSecurityStatusRequestHeader, value) when configured.
Tag(q, c, value) ==
    IF c.modSecurityStatusRequestHeader # ""
    THEN [q EXCEPT !.Header = HeaderSet(q.Header, c.modSecurityStatusRequestHeader, value)]
    ELSE q

\* The deferred Put left out.
PutBackNever(l, p) == p

\* defer bodyBufferPool.Put(buf): runs when ServeHTTP returns.
PutBack(l, p) == IF l.body.buf # 0 THEN p \cup {l.body.buf} ELSE p

\* The pool's view of the return: the request with one more Put per buffer
\* the pool received.
PutSeen(o, l, p) == [o EXCEPT !.puts = @ + Cardinality(PutBack(l, p) \ p)]

\* The fast path taken by nobody.
BypassesNever(flag) == FALSE

\* Line 162: the unsynchronised read of a.unhealthyWaf decides the bypass.
Bypasses(flag) == flag

\* ---------------------------------------------------- lines 156 to 168
EntryWebsocket(r) ==
    /\ pc[r] = "entry"
    /\ isWebsocket(req[r])
    /\ obs' = [obs EXCEPT ![r].next = Append(@, NextSeen(req[r], loc[r], bufs))]
    /\ rw' = [rw EXCEPT ![r] = NextWrites(@)]
    /\ pc' = [pc EXCEPT ![r] = "done"]
    /\ UNCHANGED <<cfg, active, inflight, unhealthyWaf, mutex, timers, pool, bufs, req, loc>>

EntryUnhealthy(r) ==
    /\ pc[r] = "entry"
    /\ ~isWebsocket(req[r])
    /\ Bypasses(unhealthyWaf)
    /\ LET q == Tag(req[r], cfg, "unhealthy")
       IN  /\ req' = [req EXCEPT ![r] = q]
           /\ obs' = [obs EXCEPT ![r].next = Append(@, NextSeen(q, loc[r], bufs)),
                                 ![r].health = "unhealthy"]
    /\ rw' = [rw EXCEPT ![r] = NextWrites(@)]
    /\ pc' = [pc EXCEPT ![r] = "done"]
    /\ UNCHANGED <<cfg, active, inflight, unhealthyWaf, mutex, timers, pool, bufs, loc>>

EntryHealthy(r) ==
    /\ pc[r] = "entry"
    /\ ~isWebsocket(req[r])
    /\ ~Bypasses(unhealthyWaf)
    /\ obs' = [obs EXCEPT ![r].health = "healthy"]
    /\ pc' = [pc EXCEPT ![r] = "validate"]
    /\ UNCHANGED <<cfg, active, inflight, unhealthyWaf, mutex, timers, pool, bufs, req, loc, rw>>

\* ---------------------------------------------------- lines 171 to 182
\* One Read of a one-byte slice through http.MaxBytesReader(rw, req.Body, 1).
TestByteRead(q) ==
    IF Len(q.wire) > q.pos
    THEN [n |-> 1, errNil |-> TRUE]
    ELSE [n |-> 0, errNil |-> FALSE]

\* The rejection test of line 175: n > 0 || err == nil.
HasBody(rd) == rd.n > 0 \/ rd.errNil

\* Strict validation applied to every method.
StrictAppliesAll(q, c) == c.ignoreBodyForVerbsDeny

\* Strict validation applied to the methods outside the list.
StrictAppliesOutside(q, c) == c.ignoreBodyForVerbsDeny /\ q.Method \notin ignoreBodyForVerbs

\* Line 171.
StrictApplies(q, c) == c.ignoreBodyForVerbsDeny /\ q.Method \in ignoreBodyForVerbs

ValidateSkip(r) ==
    /\ pc[r] = "validate"
    /\ ~StrictApplies(req[r], cfg)
    /\ pc' = [pc EXCEPT ![r] = "capture"]
    /\ UNCHANGED <<cfg, active, inflight, unhealthyWaf, mutex, timers, pool, bufs, req, loc, rw, obs>>

ValidateReject(r) ==
    /\ pc[r] = "validate"
    /\ StrictApplies(req[r], cfg)
    /\ HasBody(TestByteRead(req[r]))
    /\ req' = [req EXCEPT ![r].pos = @ + TestByteRead(req[r]).n]
    /\ obs' = [obs EXCEPT ![r].reads = @ + 1]
    /\ rw' = [rw EXCEPT ![r] = HttpError(@, StatusBadRequest)]
    /\ pc' = [pc EXCEPT ![r] = "done"]
    /\ UNCHANGED <<cfg, active, inflight, unhealthyWaf, mutex, timers, pool, bufs, loc>>

ValidatePass(r) ==
    /\ pc[r] = "validate"
    /\ StrictApplies(req[r], cfg)
    /\ ~HasBody(TestByteRead(req[r]))
    /\ obs' = [obs EXCEPT ![r].reads = @ + 1]
    /\ pc' = [pc EXCEPT ![r] = "capture"]
    /\ UNCHANGED <<cfg, active, inflight, unhealthyWaf, mutex, timers, pool, bufs, req, loc, rw>>

\* ---------------------------------------------------- lines 185 to 251
\* Reading a stream to its end through http.MaxBytesReader(rw, body, limit):
\* the reader hands over at most limit bytes and fails once one more byte
\* is there; limit 0 is the unwrapped stream (line 188).
MaxBytesRead(rest, end, limit) ==
    IF limit > 0 /\ Len(rest) > limit
    THEN [data |-> Prefix(rest, limit), err |-> "MaxBytesError", consumed |-> limit + 1]
    ELSE [data |-> rest, err |-> IF end = "EOF" THEN "nil" ELSE "io", consumed |-> Len(rest)]

\* The pool used only for a declared length within the threshold.
UsePoolKnownOnly(h) ==
    LET contentLengthStr == HeaderGet(h, "Content-Length", <<>>)
        parsed == ParseInt(contentLengthStr)
    IN  contentLengthStr # <<>> /\ parsed.ok /\ parsed.val <= MaxBodySizeBytesForPool

\* Lines 193 to 199: the pool is used unless a parseable Content-Length
\* exceeds maxBodySizeBytesForPool.
UsePool(h) ==
    LET contentLengthStr == HeaderGet(h, "Content-Length", <<>>)
        parsed == ParseInt(contentLengthStr)
    IN  IF contentLengthStr # <<>> /\ parsed.ok
        THEN parsed.val <= MaxBodySizeBytesForPool
        ELSE TRUE

\* Line 186 with every method's body read.
SkipsBodyNever(q) == FALSE

\* Line 186: the method is in a.ignoreBodyForVerbs.
SkipsBody(q) == q.Method \in ignoreBodyForVerbs

\* The cap taken from the declared Content-Length instead of the bytes read.
ReadBodyDeclared(q, c) ==
    LET parsed == ParseInt(HeaderGet(q.Header, "Content-Length", <<>>))
    IN  IF parsed.ok /\ parsed.val > c.maxBodySizeBytes
        THEN MaxBytesRead(Suffix(q.wire, q.pos), q.wireEnd, c.maxBodySizeBytes)
        ELSE MaxBytesRead(Suffix(q.wire, q.pos), q.wireEnd, 0)

\* The cap one byte too low.
ReadBodyExclusive(q, c) ==
    MaxBytesRead(Suffix(q.wire, q.pos), q.wireEnd,
                 IF c.maxBodySizeBytes > 1 THEN c.maxBodySizeBytes - 1 ELSE c.maxBodySizeBytes)

\* Lines 188 to 190 with 208 and 230: the rest of the inbound stream read to
\* its end under the cap maxBodySizeBytes.
ReadBody(q, c) == MaxBytesRead(Suffix(q.wire, q.pos), q.wireEnd, c.maxBodySizeBytes)

\* Both error branches answering 413.
ReadErrorStatusTooLarge(err) == StatusRequestEntityTooLarge

\* Both error branches answering 502.
ReadErrorStatusGeneric(err) == StatusBadGateway

\* The error branches of both read paths: 413 for a MaxBytesError, else 502.
ReadErrorStatus(err) ==
    IF err = "MaxBytesError" THEN StatusRequestEntityTooLarge ELSE StatusBadGateway

\* The too-large branch without its tag.
ReadErrorTagNone(q, c, err) == q

\* Lines 213 to 215 and 236 to 238: only the too-large branch tags the request.
ReadErrorTag(q, c, err) == IF err = "MaxBytesError" THEN Tag(q, c, "blocked") ELSE q

\* bodyBufferPool.Get: a buffer of the pool, or a new one from New (sync.Pool
\* may drop what it holds, so New can run although a buffer was put back).
GetChoices ==
    LET held == {loc[x].body.buf : x \in Reqs}
        unheld == (1..Cardinality(active)) \ held
    IN  {[id |-> b, fresh |-> FALSE] : b \in pool}
        \cup {[id |-> b, fresh |-> TRUE] : b \in {x \in unheld : \A o \in unheld : x <= o}}

\* io.Copy into the buffer without the Reset: the bytes read follow what the
\* buffer held.
FilledNoReset(b, data, fresh) ==
    LET old == IF fresh THEN FreshBuf ELSE b
    IN  [mem |-> Prefix(old.mem, old.len) \o data, len |-> old.len + Len(data)]

\* buf.Reset followed by io.Copy(buf, req.Body): the buffer keeps its backing
\* array, the bytes read overwrite its start.
Filled(b, data, fresh) ==
    LET old == IF fresh THEN FreshBuf ELSE b
    IN  [mem |-> data \o Suffix(old.mem, Min(Len(data), Len(old.mem))),
         len |-> Len(data)]

\* A buffer made by New has memory of its own: a reader still in flight over
\* the dropped buffer that had the same place is out of everybody's reach.
Unshared(f, g) == IF g.fresh THEN [f EXCEPT ![g.id] = <<>>] ELSE f

CaptureSkipped(r) ==
    /\ pc[r] = "capture"
    /\ SkipsBody(req[r])
    /\ pc' = [pc EXCEPT ![r] = "build"]
    /\ UNCHANGED <<cfg, active, inflight, unhealthyWaf, mutex, timers, pool, bufs, req, loc, rw, obs>>

CapturePooled(r) ==
    /\ pc[r] = "capture"
    /\ ~SkipsBody(req[r])
    /\ UsePool(req[r].Header)
    /\ \E g \in GetChoices :
         LET b == g.id
             rd == ReadBody(req[r], cfg)
             nb == Filled(bufs[b], rd.data, g.fresh)
             held == [loc[r] EXCEPT !.path = "pool",
                                    !.body = [nil |-> FALSE, buf |-> b,
                                              len |-> nb.len, data |-> <<>>]]
             got == [obs[r] EXCEPT !.reads = @ + 1, !.gets = @ + 1]
         IN  /\ bufs' = [bufs EXCEPT ![b] = nb]
             /\ inflight' = Unshared(inflight, g)
             /\ IF rd.err # "nil"
                THEN /\ req' = [req EXCEPT ![r] =
                                  [ReadErrorTag(@, cfg, rd.err) EXCEPT !.pos = @ + rd.consumed]]
                     /\ rw' = [rw EXCEPT ![r] = HttpError(@, ReadErrorStatus(rd.err))]
                     /\ loc' = [loc EXCEPT ![r].path = "pool"]
                     /\ pool' = PutBack(held, pool \ {b})
                     /\ obs' = [obs EXCEPT ![r] = PutSeen(got, held, pool \ {b})]
                     /\ pc' = [pc EXCEPT ![r] = "done"]
                ELSE /\ req' = [req EXCEPT ![r].pos = @ + rd.consumed]
                     /\ rw' = rw
                     /\ loc' = [loc EXCEPT ![r] = held]
                     /\ pool' = pool \ {b}
                     /\ obs' = [obs EXCEPT ![r] = got]
                     /\ pc' = [pc EXCEPT ![r] = "build"]
    /\ UNCHANGED <<cfg, active, unhealthyWaf, mutex, timers>>

CaptureAdHoc(r) ==
    /\ pc[r] = "capture"
    /\ ~SkipsBody(req[r])
    /\ ~UsePool(req[r].Header)
    /\ LET rd == ReadBody(req[r], cfg)
       IN  /\ obs' = [obs EXCEPT ![r].reads = @ + 1]
           /\ IF rd.err # "nil"
              THEN /\ req' = [req EXCEPT ![r] =
                                [ReadErrorTag(@, cfg, rd.err) EXCEPT !.pos = @ + rd.consumed]]
                   /\ rw' = [rw EXCEPT ![r] = HttpError(@, ReadErrorStatus(rd.err))]
                   /\ loc' = [loc EXCEPT ![r].path = "adhoc"]
                   /\ pc' = [pc EXCEPT ![r] = "done"]
              ELSE /\ req' = [req EXCEPT ![r].pos = @ + rd.consumed]
                   /\ rw' = rw
                   /\ loc' = [loc EXCEPT ![r].path = "adhoc",
                                         ![r].body = [nil |-> FALSE, buf |-> 0,
                                                      len |-> Len(rd.data), data |-> rd.data]]
                   /\ pc' = [pc EXCEPT ![r] = "build"]
    /\ UNCHANGED <<cfg, active, inflight, unhealthyWaf, mutex, timers, pool, bufs>>

\* ---------------------------------------------------- lines 253 to 275
\* Every target taken to parse.
NewRequestFailsNever(q) == FALSE

\* http.NewRequest fails when the target does not parse.
NewRequestFails(q) == ~ValidEscapes(ModSecurityUrl \o q.RequestURI)

BuildFails(r) ==
    /\ pc[r] = "build"
    /\ NewRequestFails(req[r])
    /\ req' = [req EXCEPT ![r] = Tag(@, cfg, "cannotforward")]
    /\ rw' = [rw EXCEPT ![r] = HttpError(@, StatusBadGateway)]
    /\ pool' = PutBack(loc[r], pool)
    /\ obs' = [obs EXCEPT ![r] = PutSeen(@, loc[r], pool)]
    /\ loc' = [loc EXCEPT ![r].body.buf = 0]
    /\ pc' = [pc EXCEPT ![r] = "done"]
    /\ UNCHANGED <<cfg, active, inflight, unhealthyWaf, mutex, timers, bufs>>

\* The request built without the inbound request-target.
NewProxyRequestBaseOnly(q, l) ==
    [built |-> TRUE, Method |-> q.Method, URL |-> ModSecurityUrl,
     hasBody |-> ~l.body.nil, Header |-> q.Header]

\* http.NewRequest(req.Method, a.modSecurityUrl + req.RequestURI, bodyReader)
\* followed by the copy of the inbound headers.
NewProxyRequest(q, l) ==
    [built |-> TRUE, Method |-> q.Method, URL |-> ModSecurityUrl \o q.RequestURI,
     hasBody |-> ~l.body.nil, Header |-> q.Header]

Build(r) ==
    /\ pc[r] = "build"
    /\ ~NewRequestFails(req[r])
    /\ loc' = [loc EXCEPT ![r].proxyReq = NewProxyRequest(req[r], loc[r])]
    /\ pc' = [pc EXCEPT ![r] = "send"]
    /\ UNCHANGED <<cfg, active, inflight, unhealthyWaf, mutex, timers, pool, bufs, req, rw, obs>>

\* ---------------------------------------------------------- line 277
WafStatuses == {200, 399, 400, 403, 503}

\* The WAF's answer with status s.
WafResponse(s) ==
    [StatusCode |-> s,
     Header |-> [n \in RespHeaderNames |->
                   CASE n = "Content-Type" -> <<"waf">>
                     [] n = "X-Waf" -> <<"a", "b">>
                     [] OTHER -> <<>>],
     Body |-> <<s, 1>>]

\* What a.httpClient.Do hands to the WAF.
Sent(l, bs) == [Method |-> l.proxyReq.Method, URL |-> l.proxyReq.URL,
                hasBody |-> l.proxyReq.hasBody, body |-> BodyBytes(l, bs),
                Header |-> l.proxyReq.Header]

\* The call made again after the first attempt.
DoRetried(seen, sent) == Append(Append(seen, sent), sent)

\* a.httpClient.Do(proxyReq): one call, which the WAF sees once.
Do(seen, sent) == Append(seen, sent)

\* A server error of the WAF taken for a failed call.
FailedOrServerError(resp) == resp.StatusCode = 0 \/ resp.StatusCode >= 500

\* Line 278, err != nil: Do returned no response.
Failed(resp) == resp.StatusCode = 0

\* Where ServeHTTP goes after Do: the error handling of lines 278 to 306 or
\* the verdict of lines 309 to 322.
AfterDo(resp) == IF Failed(resp) THEN "failed" ELSE "verdict"

SendFails(r) ==
    /\ pc[r] = "send"
    /\ obs' = [obs EXCEPT ![r].waf = Do(@, Sent(loc[r], bufs))]
    /\ pc' = [pc EXCEPT ![r] = AfterDo(NoResp)]
    /\ UNCHANGED <<cfg, active, inflight, unhealthyWaf, mutex, timers, pool, bufs, req, loc, rw>>

\* The transport's write loop when Do returns with a response: it has either
\* finished with the request body, or is still reading the bytes.Reader over
\* the captured bytes (the answer came before the body was sent in full).  A
\* reader over an ad-hoc body owns its bytes and is not followed.
StillSending(l, bs, f) ==
    {f} \cup IF l.proxyReq.hasBody /\ l.body.buf # 0 /\ l.body.len > 0
             THEN {[f EXCEPT ![l.body.buf] = BodyBytes(l, bs)]}
             ELSE {}

\* a.httpClient.Do returns a response whose status is one of statuses.
SendAnsweredWith(r, statuses) ==
    /\ pc[r] = "send"
    /\ \E s \in statuses :
         /\ loc' = [loc EXCEPT ![r].resp = WafResponse(s)]
         /\ pc' = [pc EXCEPT ![r] = AfterDo(WafResponse(s))]
    /\ obs' = [obs EXCEPT ![r].waf = Do(@, Sent(loc[r], bufs))]
    /\ inflight' \in StillSending(loc[r], bufs, inflight)
    /\ UNCHANGED <<cfg, active, unhealthyWaf, mutex, timers, pool, bufs, req, rw>>

SendAnswered(r) == SendAnsweredWith(r, WafStatuses)

\* The transport's write loop is done with the request body it was sending.
WafReadEnds(b) ==
    /\ inflight[b] # <<>>
    /\ inflight' = [inflight EXCEPT ![b] = <<>>]
    /\ UNCHANGED <<cfg, active, unhealthyWaf, mutex, timers, pool, bufs, pc, req, loc, rw, obs>>

\* ---------------------------------------------------- lines 278 to 306
\* The back-off taken as configured by every instance.
BackOffEnabledAlways(c) == TRUE

\* Line 279.
BackOffEnabled(c) == c.unhealthyWafBackOffPeriodSecs > 0

FailClosed(r) ==
    /\ pc[r] = "failed"
    /\ ~BackOffEnabled(cfg)
    /\ rw' = [rw EXCEPT ![r] = HttpError(@, StatusBadGateway)]
    /\ pool' = PutBack(loc[r], pool)
    /\ obs' = [obs EXCEPT ![r] = PutSeen(@, loc[r], pool)]
    /\ loc' = [loc EXCEPT ![r].body.buf = 0]
    /\ pc' = [pc EXCEPT ![r] = "done"]
    /\ UNCHANGED <<cfg, active, inflight, unhealthyWaf, mutex, timers, bufs, req>>

\* a.unhealthyWafMutex.Lock() of line 280.
Lock(r) ==
    /\ pc[r] = "failed"
    /\ BackOffEnabled(cfg)
    /\ mutex = 0
    /\ mutex' = r
    /\ pc' = [pc EXCEPT ![r] = "locked"]
    /\ UNCHANGED <<cfg, active, inflight, unhealthyWaf, timers, pool, bufs, req, loc, rw, obs>>

\* Every failure taken for the transition.
TransitionsAlways(flag) == TRUE

\* Line 281: only a failure that finds the flag false performs the transition.
Transitions(flag) == ~flag

\* The mutex kept by who locked it.
UnlockNever(holder) == holder

\* a.unhealthyWafMutex.Unlock(): the mutex is free.
Unlock(holder) == 0

\* Lines 281 to 294: the flag's read-modify-write, the timer, the unlock.
ReportFailure(r) ==
    /\ pc[r] = "locked"
    /\ mutex = r
    /\ IF Transitions(unhealthyWaf)
       THEN /\ unhealthyWaf' = TRUE
            /\ req' = [req EXCEPT ![r] = Tag(@, cfg, "error")]
            /\ timers' = timers + 1
            /\ loc' = [loc EXCEPT ![r].armed = TRUE]
       ELSE UNCHANGED <<unhealthyWaf, req, timers, loc>>
    /\ mutex' = Unlock(mutex)
    /\ pc' = [pc EXCEPT ![r] = "failopen"]
    /\ UNCHANGED <<cfg, active, inflight, pool, bufs, rw, obs>>

\* The request handed on carrying a diagnostic value for the verdict.
RestoreTagged(q, l) ==
    [q EXCEPT !.Body = IF ~l.body.nil THEN "captured" ELSE @,
              !.Header = HeaderSet(@, StatusHeaderName, "allowed")]

\* The request handed on with the stream the capture has drained.
RestoreNever(q, l) == q

\* Lines 296 to 298 and 319 to 321: req.Body becomes a reader over body.
Restore(q, l) == IF ~l.body.nil THEN [q EXCEPT !.Body = "captured"] ELSE q

FailOpen(r) ==
    /\ pc[r] = "failopen"
    /\ LET q == Restore(req[r], loc[r])
       IN  /\ req' = [req EXCEPT ![r] = q]
           /\ obs' = [obs EXCEPT ![r] =
                        PutSeen([@ EXCEPT !.next = Append(@, NextSeen(q, loc[r], bufs))],
                                loc[r], pool)]
    /\ rw' = [rw EXCEPT ![r] = NextWrites(@)]
    /\ pool' = PutBack(loc[r], pool)
    /\ loc' = [loc EXCEPT ![r].body.buf = 0]
    /\ pc' = [pc EXCEPT ![r] = "done"]
    /\ UNCHANGED <<cfg, active, inflight, unhealthyWaf, mutex, timers, bufs>>

\* The time.AfterFunc callback of lines 287 to 292.
TimerLock ==
    /\ timers > 0
    /\ mutex = 0
    /\ mutex' = TimerOwner
    /\ timers' = timers - 1
    /\ UNCHANGED <<cfg, active, inflight, unhealthyWaf, pool, bufs, pc, req, loc, rw, obs>>

\* The callback leaving the flag as it found it.
ExpiredKeeps(flag) == flag

\* Line 290: the callback's assignment a.unhealthyWaf = false.
Expired(flag) == FALSE

TimerExpire ==
    /\ mutex = TimerOwner
    /\ unhealthyWaf' = Expired(unhealthyWaf)
    /\ mutex' = Unlock(mutex)
    /\ UNCHANGED <<cfg, active, inflight, timers, pool, bufs, pc, req, loc, rw, obs>>

\* ---------------------------------------------------- lines 309 to 323
\* fmt.Sprintf("%d", code) over the statuses of the model.
Itoa(code) ==
    CASE code = 400 -> "400" [] code = 403 -> "403" [] code = 503 -> "503"
      [] code = 200 -> "200" [] code = 399 -> "399" [] OTHER -> "?"

\* The block tag made of the WAF's status code.
BlockTagStatus(code) == Itoa(code)

\* Line 312: the fixed value written for a block verdict.
BlockTag(code) == "blocked"

\* The classification letting one status through.
IsBlockExceptUnavailable(code) == code >= BlockThreshold /\ code # 503

\* The classification taking redirects for block verdicts.
IsBlockRedirect(code) == code >= 300

\* The classification of line 309.
IsBlock(code) == code >= BlockThreshold

\* The relay appending to the writer's values instead of replacing them.
forwardResponseAppend(resp, w) ==
    Write(WriteHeader([w EXCEPT !.Header =
                          [n \in RespHeaderNames |-> w.Header[n] \o resp.Header[n]]],
                      resp.StatusCode),
          resp.Body)

\* The body copied before the status and the headers.
forwardResponseBodyFirst(resp, w) ==
    [WriteHeader(Write(w, resp.Body), resp.StatusCode) EXCEPT !.Header =
        [n \in RespHeaderNames |->
           IF resp.Header[n] # <<>> THEN resp.Header[n] ELSE w.Header[n]]]

\* forwardResponse: every header name of the response replaces the writer's
\* values, then the status, then the body.
forwardResponse(resp, w) ==
    Write(WriteHeader([w EXCEPT !.Header =
                          [n \in RespHeaderNames |->
                             IF resp.Header[n] # <<>> THEN resp.Header[n] ELSE w.Header[n]]],
                      resp.StatusCode),
          resp.Body)

Block(r) ==
    /\ pc[r] = "verdict"
    /\ IsBlock(loc[r].resp.StatusCode)
    /\ req' = [req EXCEPT ![r] = Tag(@, cfg, BlockTag(loc[r].resp.StatusCode))]
    /\ rw' = [rw EXCEPT ![r] = forwardResponse(loc[r].resp, @)]
    /\ pool' = PutBack(loc[r], pool)
    /\ obs' = [obs EXCEPT ![r] = PutSeen(@, loc[r], pool)]
    /\ loc' = [loc EXCEPT ![r].body.buf = 0]
    /\ pc' = [pc EXCEPT ![r] = "done"]
    /\ UNCHANGED <<cfg, active, inflight, unhealthyWaf, mutex, timers, bufs>>

Allow(r) ==
    /\ pc[r] = "verdict"
    /\ ~IsBlock(loc[r].resp.StatusCode)
    /\ LET q == Restore(req[r], loc[r])
       IN  /\ req' = [req EXCEPT ![r] = q]
           /\ obs' = [obs EXCEPT ![r] =
                        PutSeen([@ EXCEPT !.next = Append(@, NextSeen(q, loc[r], bufs))],
                                loc[r], pool)]
    /\ rw' = [rw EXCEPT ![r] = NextWrites(@)]
    /\ pool' = PutBack(loc[r], pool)
    /\ loc' = [loc EXCEPT ![r].body.buf = 0]
    /\ pc' = [pc EXCEPT ![r] = "done"]
    /\ UNCHANGED <<cfg, active, inflight, unhealthyWaf, mutex, timers, bufs>>

\* The request context is discarded when ServeHTTP has returned.
Discard(r) ==
    /\ pc[r] = "done"
    /\ pc' = [pc EXCEPT ![r] = "idle"]
    /\ req' = [req EXCEPT ![r] = IdleReq]
    /\ loc' = [loc EXCEPT ![r] = FreshLoc]
    /\ rw' = [rw EXCEPT ![r] = FreshWriter]
    /\ obs' = [obs EXCEPT ![r] = FreshObs]
    /\ UNCHANGED <<cfg, active, inflight, unhealthyWaf, mutex, timers, pool, bufs>>

\* ------------------------------------------------------ specification
Next ==
    \/ \E r \in Reqs :
         \/ Arrive(r)
         \/ EntryWebsocket(r)
         \/ EntryUnhealthy(r)
         \/ EntryHealthy(r)
         \/ ValidateSkip(r)
         \/ ValidateReject(r)
         \/ ValidatePass(r)
         \/ CaptureSkipped(r)
         \/ CapturePooled(r)
         \/ CaptureAdHoc(r)
         \/ BuildFails(r)
         \/ Build(r)
         \/ SendFails(r)
         \/ SendAnswered(r)
         \/ FailClosed(r)
         \/ Lock(r)
         \/ ReportFailure(r)
         \/ FailOpen(r)
         \/ Block(r)
         \/ Allow(r)
         \/ Discard(r)
    \/ \E b \in BufIds : WafReadEnds(b)
    \/ TimerLock
    \/ TimerExpire

Spec == Init /\ [][Next]_vars

\* --------------------------------------- concurrent body-capturing requests
\* Instances that back off, cap the body and do not validate strictly.
ConcConfigs ==
    {c \in Configs : /\ ~c.ignoreBodyForVerbsDeny
                      /\ c.maxBodySizeBytes = MaxBodySizeBytes
                      /\ c.unhealthyWafBackOffPeriodSecs > 0}

\* One allowing and one blocking answer of the WAF.
ConcStatuses == {200, 403}

\* The hosting server runs ServeHTTP for every slot at once.
InitConc ==
    /\ cfg \in ConcConfigs
    /\ active = Reqs
    /\ unhealthyWaf = FALSE
    /\ mutex = 0
    /\ timers = 0
    /\ pool = {}
    /\ bufs = [b \in BufIds |-> FreshBuf]
    /\ pc = [r \in Reqs |-> "idle"]
    /\ req = [r \in Reqs |-> IdleReq]
    /\ loc = [r \in Reqs |-> FreshLoc]
    /\ rw = [r \in Reqs |-> FreshWriter]
    /\ obs = [r \in Reqs |-> FreshObs]
    /\ inflight = [b \in BufIds |-> <<>>]

\* A POST without Content-Length whose body fits the pool threshold: the
\* pooled path.
ArriveConc(r) ==
    /\ r \in active
    /\ pc[r] = "idle"
    /\ req' = [req EXCEPT ![r] =
                 NewInbound(r, "POST", <<>>, <<>>, <<"/", "a", "%", "2", "e">>,
                            MaxBodySizeBytesForPool, "EOF")]
    /\ loc' = [loc EXCEPT ![r] = FreshLoc]
    /\ rw' = [rw EXCEPT ![r] = FreshWriter]
    /\ obs' = [obs EXCEPT ![r] = FreshObs]
    /\ pc' = [pc EXCEPT ![r] = "entry"]
    /\ UNCHANGED <<cfg, active, inflight, unhealthyWaf, mutex, timers, pool, bufs>>

NextConc ==
    \/ \E r \in Reqs :
         \/ ArriveConc(r)
         \/ EntryUnhealthy(r)
         \/ EntryHealthy(r)
         \/ ValidateSkip(r)
         \/ CapturePooled(r)
         \/ Build(r)
         \/ SendFails(r)
         \/ SendAnsweredWith(r, ConcStatuses)
         \/ Lock(r)
         \/ ReportFailure(r)
         \/ FailOpen(r)
         \/ Block(r)
         \/ Allow(r)
         \/ Discard(r)
    \/ \E b \in BufIds : WafReadEnds(b)
    \/ TimerLock
    \/ TimerExpire

SpecConc == InitConc /\ [][NextConc]_vars

\* ------------------------------------------------- instances New can build
\* Every timeout an operator may configure, on instances that back off.
NewConfigs ==
    {New(c) : c \in {v \in ConfigValues : /\ ~v.ignoreBodyForVerbsDeny
                                          /\ v.maxBodySizeBytes = MaxBodySizeBytes
                                          /\ v.unhealthyWafBackOffPeriodSecs > 0}}

\* One slot serving requests on an instance built from any of them.
InitNew ==
    /\ cfg \in NewConfigs
    /\ active = {1}
    /\ unhealthyWaf = FALSE
    /\ mutex = 0
    /\ timers = 0
    /\ pool = {}
    /\ bufs = [b \in BufIds |-> FreshBuf]
    /\ pc = [r \in Reqs |-> "idle"]
    /\ req = [r \in Reqs |-> IdleReq]
    /\ loc = [r \in Reqs |-> FreshLoc]
    /\ rw = [r \in Reqs |-> FreshWriter]
    /\ obs = [r \in Reqs |-> FreshObs]
    /\ inflight = [b \in BufIds |-> <<>>]

SpecNew == InitNew /\ [][NextConc]_vars

\* The runtime runs the callback of an armed timer, a goroutine waiting for
\* the mutex gets it (sync.Mutex hands over to a starving waiter), and who
\* holds the mutex releases it.
SpecFair ==
    /\ SpecConc
    /\ SF_vars(TimerLock)
    /\ WF_vars(TimerExpire)
    /\ \A r \in Reqs : WF_vars(ReportFailure(r))

\* ------------------------------------------------------------- claims
Done(r) == pc[r] = "done"

\* The request carries an Upgrade header value "websocket".
CarriesWebsocket(r) == "websocket" \in {req[r].Header["Upgrade"][i] : i \in 1..Len(req[r].Header["Upgrade"])}

\* The request read the health flag at line 162 and found it false.
ReadHealthy(r) == obs[r].health = "healthy"

\* The WAF round trip of the request completed with an HTTP status.
Answered(r) == loc[r].resp.StatusCode # 0

InSkipList(r) == req[r].Method \in createIgnoreBodyMap(IgnoreBodyForVerbs)

\* The inbound body is longer than a configured cap.
Oversized(r) == cfg.maxBodySizeBytes > 0 /\ Len(req[r].wire) > cfg.maxBodySizeBytes

\* The middleware itself answered 413 (no WAF response was relayed).
TooLarge(r) == Done(r) /\ rw[r].status = 413 /\ ~Answered(r)

C2_AllowVerdict ==
    \A r \in Reqs :
        (Done(r) /\ ~CarriesWebsocket(r) /\ ReadHealthy(r) /\ Answered(r)
            /\ loc[r].resp.StatusCode < 400)
        => /\ Len(obs[r].next) = 1
           /\ rw[r].status = BackendStatus
           /\ rw[r].body = BackendBody
           /\ rw[r].Header = FreshWriter.Header

C2_Witness ==
    \E r \in Reqs :
        /\ Done(r) /\ ReadHealthy(r) /\ loc[r].resp.StatusCode = 399
        /\ Len(obs[r].next) = 1 /\ rw[r].status = BackendStatus

\* C3: a request carrying the Upgrade value "websocket" is handed to the
\* backend once, with no WAF contact, no read of its body, no diagnostic
\* header set and the health flag not consulted, whatever the health state,
\* the method and the body.
C3_WebsocketBypass ==
    \A r \in Reqs :
        (Done(r) /\ CarriesWebsocket(r))
        => /\ Len(obs[r].next) = 1
           /\ obs[r].waf = <<>>
           /\ obs[r].reads = 0
           /\ req[r].pos = 0
           /\ obs[r].next[1].body = req[r].wire
           /\ req[r].Header[StatusHeaderName] = <<>>
           /\ obs[r].health = "unread"
           /\ rw[r].status = BackendStatus

C3_Witness ==
    \E r \in Reqs :
        /\ Done(r) /\ CarriesWebsocket(r) /\ unhealthyWaf
        /\ cfg.modSecurityStatusRequestHeader # ""
        /\ req[r].Method = "POST" /\ Oversized(r)
        /\ Len(obs[r].next) = 1

\* C4 as stated: every request whose body is longer than the configured cap
\* (cap > 0) gets 413 and never reaches the backend, for any method and any
\* health state.
C4_AnyRequest ==
    \A r \in Reqs :
        (Done(r) /\ Oversized(r))
        => /\ rw[r].status = 413
           /\ obs[r].next = <<>>

\* C4 as amended: every non-websocket request with a method outside the
\* skip-list that read the health flag as Healthy and whose body is longer
\* than the configured cap (cap > 0) gets 413 and never reaches the backend.
C4_BodyTooLarge ==
    \A r \in Reqs :
        (Done(r) /\ Oversized(r) /\ ~CarriesWebsocket(r) /\ ~InSkipList(r) /\ ReadHealthy(r))
        => /\ rw[r].status = 413
           /\ obs[r].next = <<>>

C4_Witness ==
    \E r \in Reqs :
        /\ Done(r) /\ Oversized(r) /\ ~CarriesWebsocket(r) /\ ~InSkipList(r) /\ ReadHealthy(r)
        /\ rw[r].status = 413

C7_TooLargeForwardsNothing ==
    \A r \in Reqs :
        TooLarge(r)
        => /\ obs[r].waf = <<>>
           /\ obs[r].next = <<>>
           /\ loc[r].path \in {"pool", "adhoc"}
           /\ cfg.modSecurityStatusRequestHeader # ""
              => req[r].Header[cfg.modSecurityStatusRequestHeader] = <<"blocked">>

C7_Witness ==
    \E r \in Reqs :
        /\ TooLarge(r) /\ loc[r].path = "adhoc"
        /\ cfg.modSecurityStatusRequestHeader # ""
        /\ req[r].Header[StatusHeaderName] = <<"blocked">>

\* C8 as stated: every request with a skip-listed method, strict validation
\* enabled and at least one body byte gets 400, with no WAF contact and no
\* backend call, in every state of the middleware.
C8_AnyState ==
    \A r \in Reqs :
        (Done(r) /\ InSkipList(r) /\ cfg.ignoreBodyForVerbsDeny /\ Len(req[r].wire) >= 1)
        => /\ rw[r].status = 400
           /\ obs[r].waf = <<>>
           /\ obs[r].next = <<>>

\* C8 as amended: every non-websocket request that read the health flag as
\* Healthy, with a skip-listed method, strict validation enabled and at least
\* one body byte gets 400, with no WAF contact and no backend call.
C8_StrictReject ==
    \A r \in Reqs :
        (Done(r) /\ InSkipList(r) /\ cfg.ignoreBodyForVerbsDeny /\ Len(req[r].wire) >= 1
            /\ ~CarriesWebsocket(r) /\ ReadHealthy(r))
        => /\ rw[r].status = 400
           /\ obs[r].waf = <<>>
           /\ obs[r].next = <<>>

C8_Witness ==
    \E r \in Reqs :
        /\ Done(r) /\ InSkipList(r) /\ cfg.ignoreBodyForVerbsDeny /\ Len(req[r].wire) >= 1
        /\ ReadHealthy(r) /\ rw[r].status = 400 /\ obs[r].reads = 1

C10_BodyNotForwarded ==
    \A r \in Reqs :
        InSkipList(r) => \A i \in 1..Len(obs[r].next) : obs[r].next[i].body = <<>>

\* The request holds a pooled buffer: between its Get and its deferred Put.
Holds(r) == loc[r].body.buf # 0

\* The WAF round trip of the request ended with a transport error.
SendFailed(r) == Len(obs[r].waf) = 1 /\ ~Answered(r)

C12_BufferIsolation ==
    /\ \A r \in Reqs : Holds(r) => loc[r].body.buf \notin pool
    /\ \A r1, r2 \in Reqs : (r1 # r2 /\ Holds(r1) /\ Holds(r2))
                             => loc[r1].body.buf # loc[r2].body.buf
    /\ \A r \in Reqs :
          /\ \A i \in 1..Len(obs[r].waf) : obs[r].waf[i].body = req[r].wire
          /\ \A i \in 1..Len(obs[r].next) : obs[r].next[i].body = req[r].wire
    /\ \A b \in BufIds :
          inflight[b] # <<>> => Prefix(bufs[b].mem, Len(inflight[b])) = inflight[b]

\* C13: a request that checks a buffer out does so once, has it reset before
\* the body is written (the buffer holds exactly the bytes read), keeps it
\* out of the pool until it returns, and has returned it exactly once when it
\* is done, whatever the exit path; a request that never checked one out
\* (websocket, unhealthy bypass, skip-listed method, ad-hoc path) returns none.
C13_PoolPairing ==
    \A r \in Reqs :
        /\ obs[r].gets <= 1 /\ obs[r].puts <= obs[r].gets
        /\ obs[r].gets = 1 <=> loc[r].path = "pool"
        /\ Done(r) => obs[r].puts = obs[r].gets
        /\ (obs[r].gets = 1 /\ ~Done(r))
              => /\ obs[r].puts = 0
                 /\ Holds(r)
                 /\ loc[r].body.buf \notin pool
                 /\ bufs[loc[r].body.buf].len = req[r].pos

\* A pooled request answered 502 on the fail-closed path, its buffer back in
\* the pool.
C13_Witness ==
    \E r \in Reqs :
        /\ Done(r) /\ loc[r].path = "pool" /\ SendFailed(r)
        /\ rw[r].status = StatusBadGateway
        /\ obs[r].gets = 1 /\ obs[r].puts = 1 /\ pool # {}

\* C14: no pooled buffer is in the pool while a reader created over its
\* bytes for the WAF request is still in flight.
C14_ReturnAfterReaders ==
    \A b \in BufIds : b \in pool => inflight[b] = <<>>

\* C15: while the flag is Unhealthy (a transport failure with a back-off > 0
\* set it and the recovery timer has not reset it), a non-websocket request
\* that begins processing is handed to the backend at once: no WAF call, no
\* read or validation of its body, the whole inbound body left for the backend,
\* and the header value "unhealthy" when the diagnostic header is configured.
C15_DegradedBypass ==
    [][\A r \in Reqs :
          (pc[r] = "entry" /\ pc'[r] # "entry" /\ ~CarriesWebsocket(r) /\ unhealthyWaf)
          => /\ pc'[r] = "done"
             /\ obs'[r].waf = <<>>
             /\ obs'[r].reads = 0 /\ req'[r].pos = 0
             /\ Len(obs'[r].next) = 1
             /\ obs'[r].next[1].body = req[r].wire
             /\ rw'[r].status = BackendStatus
             /\ cfg.modSecurityStatusRequestHeader = StatusHeaderName
                   => obs'[r].next[1].Header[StatusHeaderName] = <<"unhealthy">>]_vars

\* A request with a body bypassed and tagged while the timer is pending.
C15_Witness ==
    \E r \in Reqs :
        /\ Done(r) /\ obs[r].health = "unhealthy" /\ unhealthyWaf /\ timers = 1
        /\ req[r].Method = "POST" /\ Len(req[r].wire) > 0
        /\ obs[r].waf = <<>> /\ obs[r].reads = 0 /\ Len(obs[r].next) = 1
        /\ req[r].Header[StatusHeaderName] = <<"unhealthy">>

\* C16: whenever the flag is Unhealthy the timer's callback eventually sets
\* it back to Healthy, whatever the WAF does meanwhile; a non-websocket
\* request that begins processing while the flag is Healthy is not bypassed,
\* and such a request of the body-capturing path consults the WAF.
C16_AutomaticRecovery ==
    /\ unhealthyWaf ~> ~unhealthyWaf
    /\ [][\A r \in Reqs :
            (pc[r] = "entry" /\ pc'[r] # "entry" /\ ~CarriesWebsocket(r) /\ ~unhealthyWaf)
            => pc'[r] = "validate" /\ obs'[r].health = "healthy"]_vars
    /\ [](\A r \in Reqs : (Done(r) /\ ReadHealthy(r)) => Len(obs[r].waf) = 1)

\* A request that found the flag Healthy again and went to the WAF after an
\* earlier request had been bypassed.
C16_Witness ==
    \E r1, r2 \in Reqs :
        /\ Done(r1) /\ obs[r1].health = "unhealthy"
        /\ ~unhealthyWaf /\ timers = 0 /\ mutex = 0
        /\ pc[r2] = "verdict" /\ ReadHealthy(r2) /\ Len(obs[r2].waf) = 1

\* Timers armed whose callback has not yet reset the flag.
PendingTimers == timers + IF mutex = TimerOwner THEN 1 ELSE 0

\* C17: at most one recovery timer is pending, the flag is Unhealthy exactly
\* when one is pending, a timer is armed only by the request that holds the
\* lock and moves the flag from Healthy to Unhealthy, and a failure reported
\* while the flag is Unhealthy arms none.
C17_SingleTimer ==
    /\ [](PendingTimers <= 1 /\ (unhealthyWaf <=> PendingTimers = 1))
    /\ [][timers' > timers
            => \E r \in Reqs : /\ mutex = r /\ pc[r] = "locked"
                               /\ ~unhealthyWaf /\ unhealthyWaf'
                               /\ timers' = timers + 1]_vars
    /\ [][\A r \in Reqs : (pc[r] = "locked" /\ pc'[r] # "locked" /\ unhealthyWaf)
                          => timers' = timers /\ unhealthyWaf']_vars

\* A second request reports its failure while the first one's timer is pending.
C17_Witness ==
    \E r1, r2 \in Reqs :
        /\ r1 # r2 /\ loc[r1].armed /\ ~loc[r2].armed
        /\ pc[r2] = "failopen" /\ SendFailed(r2)
        /\ unhealthyWaf /\ timers = 1

\* C18: with back-off 0 the flag is never Unhealthy, no timer is ever armed
\* and the lock is never taken; a request whose WAF call failed is answered
\* 502 by the middleware and the backend is not invoked for it.
C18_FailClosed ==
    ~(cfg.unhealthyWafBackOffPeriodSecs > 0)
    => /\ ~unhealthyWaf /\ timers = 0 /\ mutex = 0
       /\ \A r \in Reqs :
             /\ ~loc[r].armed
             /\ (Done(r) /\ SendFailed(r))
                   => /\ rw[r].status = StatusBadGateway
                      /\ rw[r].body = <<0, StatusBadGateway>>
                      /\ obs[r].next = <<>>

C18_Witness ==
    \E r \in Reqs :
        /\ cfg.unhealthyWafBackOffPeriodSecs = 0
        /\ Done(r) /\ SendFailed(r) /\ req[r].Method = "POST"
        /\ rw[r].status = StatusBadGateway /\ obs[r].next = <<>>

\* C19: with back-off 0 and the diagnostic header configured, a request
\* whose WAF call failed carries the header value "error" when the 502 is
\* written.
C19_FailClosedTag ==
    \A r \in Reqs :
        (/\ cfg.unhealthyWafBackOffPeriodSecs = 0
         /\ cfg.modSecurityStatusRequestHeader = StatusHeaderName
         /\ Done(r) /\ SendFailed(r))
        => req[r].Header[StatusHeaderName] = <<"error">>

\* C20: with back-off > 0 a request whose WAF call failed, whether or not it
\* performed the transition, is handed to the backend exactly once with the
\* captured body restored to the original bytes, and the client gets the
\* backend's answer, not a 502.
C20_FailOpen ==
    \A r \in Reqs :
        (cfg.unhealthyWafBackOffPeriodSecs > 0 /\ Done(r) /\ SendFailed(r))
        => /\ Len(obs[r].next) = 1
           /\ obs[r].next[1].restored
           /\ obs[r].next[1].body = req[r].wire
           /\ rw[r].status = BackendStatus /\ rw[r].body = BackendBody

\* Both requests failed open: one armed the timer, the other did not.
C20_Witness ==
    \E r1, r2 \in Reqs :
        /\ Done(r1) /\ SendFailed(r1) /\ loc[r1].armed
        /\ Done(r2) /\ SendFailed(r2) /\ ~loc[r2].armed
        /\ Len(obs[r2].next) = 1 /\ obs[r2].next[1].body = req[r2].wire

\* C21: with back-off > 0 and the diagnostic header configured, every request
\* whose own WAF call failed in transport carries the header value "error"
\* when it is handed to the backend, also when another request had already
\* switched the flag to Unhealthy.
C21_ErrorTagOnEveryFailure ==
    \A r \in Reqs :
        (/\ cfg.unhealthyWafBackOffPeriodSecs > 0
         /\ cfg.modSecurityStatusRequestHeader = StatusHeaderName
         /\ Done(r) /\ SendFailed(r))
        => /\ Len(obs[r].next) = 1
           /\ obs[r].next[1].Header[StatusHeaderName] = <<"error">>

\* C22: when building the outbound WAF request fails, the request is
\* answered 502 in that step, with no WAF contact, no backend invocation, the
\* health flag and the timers untouched, and the header value "cannotforward"
\* on the inbound request when the diagnostic header is configured.
C22_CannotForward ==
    [][\A r \in Reqs :
          (/\ pc[r] = "build" /\ pc'[r] # "build"
           /\ ~ValidEscapes(ModSecurityUrl \o req[r].RequestURI))
          => /\ pc'[r] = "done"
             /\ rw'[r].status = StatusBadGateway
             /\ obs'[r].waf = <<>> /\ obs'[r].next = <<>>
             /\ unhealthyWaf' = unhealthyWaf /\ timers' = timers /\ mutex' = mutex
             /\ cfg.modSecurityStatusRequestHeader = StatusHeaderName
                   => req'[r].Header[StatusHeaderName] = <<"cannotforward">>]_vars

C22_Witness ==
    \E r \in Reqs :
        /\ Done(r) /\ ReadHealthy(r) /\ req[r].Method = "POST"
        /\ req[r].RequestURI = <<"/", "%", "z", "z">>
        /\ Len(req[r].wire) = 1 /\ req[r].pos = 1
        /\ rw[r].status = StatusBadGateway /\ obs[r].waf = <<>> /\ obs[r].next = <<>>
        /\ req[r].Header[StatusHeaderName] = <<"cannotforward">>

\* C23: a read of the inbound body that fails for another reason than the
\* cap (the stream breaks, the body being within the cap) is answered 502,
\* not 413, in that step, with no WAF contact, no backend invocation and the
\* health flag and the timers untouched.
C23_ReadFailure ==
    [][\A r \in Reqs :
          (/\ pc[r] = "capture" /\ pc'[r] # "capture"
           /\ ~InSkipList(r) /\ req[r].wireEnd = "error" /\ ~Oversized(r))
          => /\ pc'[r] = "done"
             /\ rw'[r].status = StatusBadGateway
             /\ rw'[r].status # StatusRequestEntityTooLarge
             /\ obs'[r].waf = <<>> /\ obs'[r].next = <<>>
             /\ unhealthyWaf' = unhealthyWaf /\ timers' = timers /\ mutex' = mutex]_vars

\* A broken stream on the pooled and a broken stream on the ad-hoc path.
C23_Witness ==
    \E r \in Reqs :
        /\ Done(r) /\ ReadHealthy(r) /\ req[r].Method = "POST"
        /\ req[r].wireEnd = "error" /\ Len(req[r].wire) = 1 /\ loc[r].path = "adhoc"
        /\ rw[r].status = StatusBadGateway /\ obs[r].waf = <<>> /\ obs[r].next = <<>>

C25_ReadmeThreshold ==
    \A r \in Reqs :
        (Done(r) /\ Answered(r))
        => ((obs[r].next = <<>> /\ rw[r].status = loc[r].resp.StatusCode)
               <=> loc[r].resp.StatusCode > 400)

\* C26: the response writer never carries a header of the diagnostic name,
\* on any path.
C26_NeverOnResponse ==
    \A r \in Reqs : rw[r].Header[StatusHeaderName] = <<>>

\* A request tagged on the inbound request and answered 413 by the middleware.
C26_Witness ==
    \E r \in Reqs :
        /\ Done(r) /\ rw[r].status = StatusRequestEntityTooLarge
        /\ req[r].Header[StatusHeaderName] = <<"blocked">>
        /\ rw[r].Header["Content-Type"] = <<"text/plain">>

\* C27: on the allow path (flag read Healthy, WAF status < 400) the backend
\* is handed the headers of the inbound request, which the client sent
\* without the diagnostic header: no value of that name is added.
C27_AllowKeepsHeaders ==
    \A r \in Reqs :
        (Done(r) /\ ReadHealthy(r) /\ Answered(r) /\ loc[r].resp.StatusCode < 400)
        => /\ Len(obs[r].next) = 1
           /\ obs[r].next[1].Header[StatusHeaderName] = <<>>
           /\ \A h \in ReqHeaderNames : obs[r].next[1].Header[h] = req[r].Header[h]
           /\ obs[r].next[1].Header = loc[r].proxyReq.Header

C27_Witness ==
    \E r \in Reqs :
        /\ Done(r) /\ ReadHealthy(r) /\ loc[r].resp.StatusCode = 200
        /\ cfg.modSecurityStatusRequestHeader = StatusHeaderName
        /\ req[r].Method = "POST" /\ Len(req[r].wire) = 2
        /\ Len(obs[r].next) = 1 /\ obs[r].next[1].Header[StatusHeaderName] = <<>>

C29_StatusCodeTag ==
    \A r \in Reqs :
        (/\ cfg.modSecurityStatusRequestHeader = StatusHeaderName
         /\ Done(r) /\ Answered(r) /\ loc[r].resp.StatusCode >= 400)
        => req[r].Header[StatusHeaderName] = <<Itoa(loc[r].resp.StatusCode)>>

\* The declared Content-Length of the request, as line 196 parses it.
Declared(r) == ParseInt(HeaderGet(req[r].Header, "Content-Length", <<>>))

C31_ReadmeTimeout ==
    cfg.httpClientTimeout = (IF cfg.timeoutMillis = 0 THEN 0
                             ELSE cfg.timeoutMillis * Millisecond)

\* ------------------------------------------------------------------ C32
\* C32: no pool pollution: a buffer taken from or returned to the pool never
\* holds, and never held, a body longer than the pool-eligibility threshold,
\* whatever Content-Length the request declared or omitted.
C32_NoPoolPollution ==
    /\ \A b \in BufIds : Len(bufs[b].mem) <= MaxBodySizeBytesForPool
    /\ \A r \in Reqs : loc[r].path = "pool" => loc[r].body.len <= MaxBodySizeBytesForPool

\* ------------------------------------------------------------------ C33
\* C33: when the WAF's response is relayed, the client receives the WAF's
\* status together with a header set in which every name of the WAF's
\* response carries exactly the WAF's values (replacing what the writer
\* held) and every other name keeps what the writer held; the body that
\* follows is the WAF's: headers and status are written before any body byte.
C33_ForwardResponse ==
    \A r \in Reqs :
        (Done(r) /\ ~CarriesWebsocket(r) /\ ReadHealthy(r) /\ Answered(r)
            /\ loc[r].resp.StatusCode >= 400)
        => /\ rw[r].status = loc[r].resp.StatusCode
           /\ \A n \in RespHeaderNames :
                 rw[r].sent[n] = IF loc[r].resp.Header[n] # <<>>
                                 THEN loc[r].resp.Header[n]
                                 ELSE FreshWriter.Header[n]
           /\ rw[r].Header = rw[r].sent
           /\ rw[r].body = loc[r].resp.Body

C33_Witness ==
    \E r \in Reqs :
        /\ Done(r) /\ ReadHealthy(r) /\ loc[r].resp.StatusCode = 503
        /\ rw[r].status = 503
        /\ rw[r].sent["Content-Type"] = <<"waf">>
        /\ rw[r].sent["X-Pre"] = <<"pre">>
        /\ rw[r].body = <<503, 1>>

\* ------------------------------------------------------------------ C34
\* C34: whenever the WAF is called for a request, what it is sent has the
\* inbound method, the WAF base URL followed by the inbound request-target
\* character for character, the inbound headers as they stand at that
\* moment, and as body the bytes captured from the inbound stream, or no
\* body when the method is in the skip list.
C34_OutboundRequest ==
    [][\A r \in Reqs :
          Len(obs'[r].waf) > Len(obs[r].waf)
          => LET s == obs'[r].waf[Len(obs'[r].waf)]
             IN  /\ s.Method = req[r].Method
                 /\ s.URL = ModSecurityUrl \o req[r].RequestURI
                 /\ s.Header = req[r].Header
                 /\ s.hasBody = ~InSkipList(r)
                 /\ s.body = IF InSkipList(r) THEN <<>>
                              ELSE Prefix(req[r].wire, req[r].pos)]_vars

C34_Witness ==
    \E r \in Reqs :
        /\ Len(obs[r].waf) = 1
        /\ obs[r].waf[1].Method = "POST"
        /\ obs[r].waf[1].URL = ModSecurityUrl \o <<"/", "a", "%", "2", "e">>
        /\ obs[r].waf[1].Header["Content-Length"] = << <<"1">> >>
        /\ obs[r].waf[1].hasBody
        /\ obs[r].waf[1].body = req[r].wire
        /\ Len(req[r].wire) = 1

\* ------------------------------------------------------------------ C35
\* C35: a request holds the health mutex only between its Lock and the end
\* of the flag's read-modify-write and timer arming: never while it reads the
\* body, calls the WAF or hands the request to the backend (the mutex is
\* released before the fail-open hand-off); and whoever holds the mutex,
\* a request or the timer callback, can always take its releasing step, so
\* the two kinds of holder never block each other for good.
C35_LockScope ==
    /\ \A r \in Reqs : mutex = r => pc[r] = "locked"
    /\ \A r \in Reqs : mutex = r => ENABLED ReportFailure(r)
    /\ mutex = TimerOwner => ENABLED TimerExpire

C35_Witness ==
    \E r, w \in Reqs :
        /\ r # w
        /\ mutex = r /\ pc[r] = "locked"
        /\ pc[w] = "failed"

\* ------------------------------------------------------------------ C36
\* C36: no retries: the WAF is called at most once for a request, and a
\* request whose call failed ends either in the middleware's 502 without the
\* backend, or forwarded to the backend once, without a second call.
C36_NoRetries ==
    \A r \in Reqs :
        /\ Len(obs[r].waf) <= 1
        /\ (Done(r) /\ Len(obs[r].waf) >= 1 /\ ~Answered(r))
           => \/ rw[r].status = StatusBadGateway /\ obs[r].next = <<>>
              \/ rw[r].status = BackendStatus /\ Len(obs[r].next) = 1

C36_Witness ==
    \E r \in Reqs :
        /\ Done(r) /\ Len(obs[r].waf) = 1 /\ ~Answered(r)
        /\ rw[r].status = StatusBadGateway /\ obs[r].next = <<>>

\* ------------------------------------------------------------------ C37
\* C37: with strict validation enabled, a request processed while Healthy
\* whose method is not in the skip list is never answered with the
\* middleware's own 400: its body is captured and sent to the WAF as usual
\* (only a read failure, a too large body or an unparseable target keep it
\* from the WAF); and a request whose method is in the skip list and whose
\* body is empty is not rejected either: it goes to the WAF without a body.
C37_StrictScope ==
    \A r \in Reqs :
        (Done(r) /\ cfg.ignoreBodyForVerbsDeny /\ ~CarriesWebsocket(r) /\ ReadHealthy(r))
        => /\ ~InSkipList(r)
              => /\ rw[r].body # <<0, StatusBadRequest>>
                 /\ obs[r].waf = <<>>
                    => rw[r].body \in {<<0, StatusRequestEntityTooLarge>>,
                                       <<0, StatusBadGateway>>}
                 /\ obs[r].waf # <<>>
                    => /\ obs[r].waf[1].hasBody
                       /\ obs[r].waf[1].body = req[r].wire
           /\ (InSkipList(r) /\ req[r].wire = <<>>)
              => /\ rw[r].body # <<0, StatusBadRequest>>
                 /\ ValidEscapes(ModSecurityUrl \o req[r].RequestURI)
                    => /\ Len(obs[r].waf) = 1
                       /\ ~obs[r].waf[1].hasBody

C37_Witness ==
    \E r \in Reqs :
        /\ Done(r) /\ cfg.ignoreBodyForVerbsDeny /\ ReadHealthy(r)
        /\ req[r].Method = "POST" /\ Len(req[r].wire) = MaxBodySizeBytes
        /\ Len(obs[r].waf) = 1
        /\ obs[r].waf[1].hasBody /\ obs[r].waf[1].body = req[r].wire
        /\ rw[r].status = BackendStatus

\* ------------------------------------------------------------------ C38
\* C38: single outcome: a finished request has had exactly one of (a) the
\* backend invoked exactly once with nothing written by the middleware
\* itself, (b) the WAF's response relayed to the client, (c) the middleware's
\* own error answer with status 400, 413 or 502; in (b) and (c) the backend
\* was not invoked; and the backend is never invoked twice.
BackendOutcome(r) ==
    /\ Len(obs[r].next) = 1
    /\ rw[r].status = BackendStatus /\ rw[r].body = BackendBody
    /\ rw[r].Header = FreshWriter.Header

RelayOutcome(r) ==
    /\ obs[r].next = <<>>
    /\ Answered(r)
    /\ rw[r].status = loc[r].resp.StatusCode /\ rw[r].body = loc[r].resp.Body

ErrorOutcome(r) ==
    /\ obs[r].next = <<>>
    /\ rw[r].status \in {StatusBadRequest, StatusRequestEntityTooLarge, StatusBadGateway}
    /\ rw[r].body = <<0, rw[r].status>>

C38_SingleOutcome ==
    \A r \in Reqs :
        /\ Len(obs[r].next) <= 1
        /\ Done(r)
           => /\ BackendOutcome(r) \/ RelayOutcome(r) \/ ErrorOutcome(r)
              /\ ~(BackendOutcome(r) /\ RelayOutcome(r))
              /\ ~(BackendOutcome(r) /\ ErrorOutcome(r))
              /\ ~(RelayOutcome(r) /\ ErrorOutcome(r))

C38_Witness ==
    \E r \in Reqs :
        /\ Done(r) /\ ErrorOutcome(r) /\ rw[r].status = StatusRequestEntityTooLarge
        /\ obs[r].waf = <<>>

\* ------------------------------------------------------------------ C39
\* C39: only a transport failure changes health: the flag or the set of
\* pending timers changes only in the step of a request whose WAF call
\* returned no response (or in the timer callback); a call that completed
\* with any HTTP status, a WAF server error included, leaves both as they
\* are and is handled by the threshold (a status >= 500 is relayed as a
\* block), and so do the 400, 413, read-failure and cannotforward paths.
C39_OnlyTransportFailure ==
    /\ [][(unhealthyWaf' # unhealthyWaf \/ timers' # timers)
           => \/ mutex = TimerOwner
              \/ mutex' = TimerOwner
              \/ \E r \in Reqs : /\ mutex = r /\ pc[r] = "locked"
                                  /\ Len(obs[r].waf) = 1 /\ ~Answered(r)]_vars
    /\ [](\A r \in Reqs :
             (Done(r) /\ Answered(r) /\ loc[r].resp.StatusCode >= 500)
             => /\ rw[r].status = loc[r].resp.StatusCode
                /\ obs[r].next = <<>>
                /\ ~loc[r].armed)

C39_Witness ==
    \E r \in Reqs :
        /\ Done(r) /\ Answered(r) /\ loc[r].resp.StatusCode = 503
        /\ cfg.unhealthyWafBackOffPeriodSecs > 0
        /\ rw[r].status = 503 /\ obs[r].next = <<>>
        /\ ~unhealthyWaf /\ timers = 0
====
